---- MODULE Spec2Model ----
(***************************************************************************)
(* Model of the tile server's concurrent serving engine:                   *)
(*   - request handlers of server.rs (index, TileJSON and tile routes),    *)
(*   - the per-worker registry slots (AppState.table_sources /             *)
(*     function_sources) and their seeding in create_state,                *)
(*   - the Coordinator / WorkerActor broadcast protocol,                   *)
(*   - the DB executor pool (SyncArbiter of DBActor) over a connection     *)
(*     pool,                                                               *)
(*   - the table metadata scan and the tile fetch of table_source.rs.      *)
(***************************************************************************)
EXTENDS Integers, Sequences, FiniteSets, TLC

\* ------------------------------------------------------------------ bounds

\* config.worker_processes: number of request-handling workers
NumWorkers == 2

\* requests accepted over a run
MaxRequests == 2

\* changes of the database content over a run
MaxDbChanges == 1

\* index requests in the runs that try a scan on every listing
MaxScans == 1

\* largest connection pool size tried
MaxPoolSize == 2

\* operations submitted to the executors in the runs that exercise the pool
MaxOps == 4

\* -------------------------------------------------------- program constants

\* SyncArbiter::start(3, ...)
NumExecutors == 3

\* setup_connection_pool(&connection_string, Some(1), false)
MockPoolSize == 1

DEFAULT_EXTENT == 4096

DEFAULT_BUFFER == 64

DEFAULT_CLIP_GEOM == TRUE

Workers == 1..NumWorkers

Executors == 1..NumExecutors

None == [some |-> FALSE]

Some(v) == [some |-> TRUE, value |-> v]

Ok(v) == [ok |-> TRUE, value |-> v]

\* io::Error returned through the Result
Err == [ok |-> FALSE, error |-> "io"]

\* the handler panicked: the reply channel is dropped, the caller's send()
\* future resolves to MailboxError
Panic == [ok |-> FALSE, error |-> "panic"]

MailboxError == [ok |-> FALSE, error |-> "mailbox"]

\* ------------------------------------------------------------ text helpers
\* A text is a sequence of one-character strings.

Digits == {"0", "1", "2", "3", "4", "5", "6", "7", "8", "9"}

DigitValue(c) ==
    CASE c = "0" -> 0 [] c = "1" -> 1 [] c = "2" -> 2 [] c = "3" -> 3
      [] c = "4" -> 4 [] c = "5" -> 5 [] c = "6" -> 6 [] c = "7" -> 7
      [] c = "8" -> 8 [] c = "9" -> 9

HasPrefix(s, pat) ==
    /\ Len(s) >= Len(pat)
    /\ SubSeq(s, 1, Len(pat)) = pat

\* str::replace(pat, with), left to right, non-overlapping
RECURSIVE Replace(_, _, _)
Replace(s, pat, with) ==
    IF s = <<>> THEN <<>>
    ELSE IF HasPrefix(s, pat)
         THEN with \o Replace(SubSeq(s, Len(pat) + 1, Len(s)), pat, with)
         ELSE <<Head(s)>> \o Replace(Tail(s), pat, with)

\* str::split(sep): the fields between separators (an empty text has one
\* empty field)
RECURSIVE SplitFrom(_, _, _)
SplitFrom(s, sep, cur) ==
    IF s = <<>> THEN <<cur>>
    ELSE IF Head(s) = sep
         THEN <<cur>> \o SplitFrom(Tail(s), sep, <<>>)
         ELSE SplitFrom(Tail(s), sep, Append(cur, Head(s)))

Split(s, sep) == SplitFrom(s, sep, <<>>)

RECURSIVE Decimal(_, _)
Decimal(s, acc) ==
    IF s = <<>> THEN acc ELSE Decimal(Tail(s), 10 * acc + DigitValue(Head(s)))

\* str::parse::<f32>() on the texts of the model: an optional sign and at
\* least one digit
ParseF32(s) ==
    LET body == IF s # <<>> /\ Head(s) = "-" THEN Tail(s) ELSE s
        neg  == s # <<>> /\ Head(s) = "-"
    IN  IF body # <<>> /\ \A i \in 1..Len(body) : body[i] \in Digits
        THEN Ok(IF neg THEN 0 - Decimal(body, 0) ELSE Decimal(body, 0))
        ELSE Err

\* ------------------------------------------------------- database content
\* A geometry_columns row with the outcome of its bounding-box query:
\* bounds.error (the query fails) or bounds.rows (the texts of the rows it
\* returns, each a text or a null column).

BoxText == <<"B","O","X","(","1"," ","2",",","3"," ","4",")">>

\* a box whose second corner is missing
ShortBoxText == <<"B","O","X","(","1"," ","2",")">>

\* a box with a field that is no number
JunkBoxText == <<"B","O","X","(","1"," ","x",",","3"," ","4",")">>

Cell(text) == [null |-> FALSE, text |-> text]

NullCell == [null |-> TRUE, text |-> <<>>]

BoundsOk == [error |-> FALSE, rows |-> <<Cell(BoxText)>>]

TableRow(schema, table, srid, bounds) ==
    [f_table_schema |-> schema, f_table_name |-> table,
     f_geometry_column |-> "geom", srid |-> srid, bounds |-> bounds]

RowA == TableRow("public", "a", 3857, BoundsOk)

RowB == TableRow("public", "b", 4326, BoundsOk)

RowZ == TableRow("public", "z", 0, BoundsOk)

RowShort == TableRow("public", "c", 4326, [error |-> FALSE, rows |-> <<Cell(ShortBoxText)>>])

FunctionRow(schema, function) == [schema |-> schema, function |-> function]

RowF == FunctionRow("public", "f")

\* the database content when the server starts
InitialContent == [tables |-> <<RowA>>, functions |-> <<RowF>>]

\* the database contents the model moves between
DbContents ==
    { InitialContent,
      [tables |-> <<RowB, RowZ>>,     functions |-> <<>>],
      [tables |-> <<RowA, RowShort>>, functions |-> <<RowF>>] }

\* bounds on the contents a single scan is tried on
MaxRows == 2

\* the names of the tables of those contents, by position
TableNames == <<"a", "z", "c">>

\* the outcomes of a row's bounding-box query: the box text, an error, no
\* row, a null column, a box with too few fields, a field that is no number
BoundsOutcomes ==
    { BoundsOk,
      [error |-> TRUE,  rows |-> <<>>],
      [error |-> FALSE, rows |-> <<>>],
      [error |-> FALSE, rows |-> <<NullCell>>],
      [error |-> FALSE, rows |-> <<Cell(ShortBoxText)>>],
      [error |-> FALSE, rows |-> <<Cell(JunkBoxText)>>] }

ScanRows ==
    { TableRow("public", TableNames[i], srid, bounds) :
        i \in 1..MaxRows, srid \in {0, 4326}, bounds \in BoundsOutcomes }

\* every geometry_columns listing of up to MaxRows tables
ScanContents ==
    { [tables |-> rows, functions |-> <<RowF>>] :
        rows \in UNION { { t \in [1..n -> ScanRows] :
                              \A i \in 1..n : t[i].f_table_name = TableNames[i] } :
                         n \in 0..MaxRows } }

AllContents == DbContents \cup ScanContents

\* ----------------------------------------------------------- table source

SourceId(schema, name) == schema \o "." \o name

\* the text-to-bounds conversion of get_table_sources
ParseBounds(text) ==
    LET new_string == Replace(Replace(Replace(Replace(text, <<"(">>, <<>>),
                              <<")">>, <<>>), <<"B","O","X">>, <<>>),
                              <<" ">>, <<",">>)
        bounds_string == Split(new_string, ",")
    IN  IF Len(bounds_string) < 4 THEN Panic
        ELSE LET p == [i \in 1..4 |-> ParseF32(bounds_string[i])]
             IN  IF \E i \in 1..4 : ~p[i].ok THEN Panic
                 ELSE Ok([i \in 1..4 |-> p[i].value])

\* the bounds of one row: the bounding-box query, then the first row of
\* its result
RowBounds(row) ==
    IF row.bounds.error THEN Err
    ELSE IF row.bounds.rows = <<>> THEN Ok(<<>>)
    ELSE IF Head(row.bounds.rows).null THEN Panic
    ELSE ParseBounds(Head(row.bounds.rows).text)

\* HashMap::insert
Insert(map, k, v) == [x \in DOMAIN map \cup {k} |-> IF x = k THEN v ELSE map[x]]

EmptyMap == [x \in {} |-> x]

RECURSIVE ScanTableRows(_, _)
ScanTableRows(rows, sources) ==
    IF rows = <<>> THEN Ok(sources)
    ELSE LET row == Head(rows)
             id == SourceId(row.f_table_schema, row.f_table_name)
             b == RowBounds(row)
         IN  IF ~b.ok THEN b
             ELSE IF row.srid = 0 THEN ScanTableRows(Tail(rows), sources)
             ELSE ScanTableRows(Tail(rows),
                    Insert(sources, id,
                        [kind |-> "table", id |-> id,
                         schema |-> row.f_table_schema,
                         table |-> row.f_table_name,
                         geometry_column |-> row.f_geometry_column,
                         srid |-> row.srid,
                         extent |-> Some(DEFAULT_EXTENT),
                         buffer |-> Some(DEFAULT_BUFFER),
                         clip_geom |-> Some(DEFAULT_CLIP_GEOM),
                         bounds |-> b.value]))

\* table_source::get_table_sources: answered is whether the metadata query
\* succeeds
get_table_sources_scan(content, answered) ==
    IF ~answered THEN Err ELSE ScanTableRows(content.tables, EmptyMap)

\* the scan of each database content, computed once
TableScans == [content \in AllContents |-> get_table_sources_scan(content, TRUE)]

RECURSIVE ScanFunctionRows(_, _)
ScanFunctionRows(rows, sources) ==
    IF rows = <<>> THEN Ok(sources)
    ELSE LET row == Head(rows)
             id == SourceId(row.schema, row.function)
         IN  ScanFunctionRows(Tail(rows),
                Insert(sources, id,
                    [kind |-> "function", id |-> id, schema |-> row.schema,
                     function |-> row.function]))

get_function_sources_scan(content, answered) ==
    IF ~answered THEN Err ELSE ScanFunctionRows(content.functions, EmptyMap)

FunctionScans == [content \in AllContents |-> get_function_sources_scan(content, TRUE)]

\* the answers the database can give to a tile query: an error, or the
\* st_asmvt column of each returned row (a byte sequence)
TileAnswers ==
    { [error |-> TRUE,  rows |-> <<>>],
      [error |-> FALSE, rows |-> <<>>],
      [error |-> FALSE, rows |-> << <<>> >>],
      [error |-> FALSE, rows |-> << <<26>> >>] }

\* Client::query_one: exactly one row, or an error
query_one(answer) ==
    IF answer.error THEN Err
    ELSE IF Len(answer.rows) # 1 THEN Err
    ELSE Ok(answer.rows[1])

\* SQL fragments are sequences of tokens.

\* utils::tilebbox: the envelope of the tile in web mercator
tilebbox(xyz) ==
    <<"TileBBox(", ToString(xyz.z), ",", ToString(xyz.x), ",", ToString(xyz.y),
      ",", "3857", ")">>

\* format!("ST_Transform({0}, {1})", what, srid)
ST_Transform(what, srid) == <<"ST_Transform(">> \o what \o <<",", ToString(srid), ")">>

\* a query builder that reprojects the geometry and leaves the envelope of
\* the spatial filter in web mercator
get_tile_query_plain_envelope(source, xyz) ==
    LET mercator_bounds == tilebbox(xyz)
    IN  [id |-> source.id,
         geometry_column |-> <<source.geometry_column>>,
         geometry_column_mercator |->
            IF source.srid = 3857 THEN <<source.geometry_column>>
            ELSE ST_Transform(<<source.geometry_column>>, 3857),
         original_bounds |-> mercator_bounds,
         mercator_bounds |-> mercator_bounds,
         extent |-> IF source.extent.some THEN source.extent.value ELSE DEFAULT_EXTENT,
         buffer |-> IF source.buffer.some THEN source.buffer.value ELSE DEFAULT_BUFFER,
         clip_geom |-> IF source.clip_geom.some THEN source.clip_geom.value
                       ELSE DEFAULT_CLIP_GEOM]

\* the arguments TableSource::get_tile fills its query template with
get_tile_query(source, xyz) ==
    LET mercator_bounds == tilebbox(xyz)
        pair == IF source.srid = 3857
                THEN << <<source.geometry_column>>, mercator_bounds >>
                ELSE <<ST_Transform(<<source.geometry_column>>, 3857),
                       ST_Transform(mercator_bounds, source.srid)>>
    IN  [id |-> source.id,
         geometry_column |-> <<source.geometry_column>>,
         geometry_column_mercator |-> pair[1],
         original_bounds |-> pair[2],
         mercator_bounds |-> mercator_bounds,
         extent |-> IF source.extent.some THEN source.extent.value ELSE DEFAULT_EXTENT,
         buffer |-> IF source.buffer.some THEN source.buffer.value ELSE DEFAULT_BUFFER,
         clip_geom |-> IF source.clip_geom.some THEN source.clip_geom.value
                       ELSE DEFAULT_CLIP_GEOM]

\* Source::get_tile of a table source: the query is built from the source
\* definition alone, the tile is the st_asmvt column of the single row
get_tile(source, xyz, answer) ==
    LET row == query_one(answer)
    IN  IF row.ok THEN Ok(row.value) ELSE Err

\* static configuration: the catalogs a process can be seeded with
StaticTables == ScanTableRows(<<RowA>>, EmptyMap).value

StaticFunctions == ScanFunctionRows(<<RowF>>, EmptyMap).value

Configs ==
    { [table_sources |-> t, function_sources |-> f, watch |-> w] :
        t \in {None, Some(StaticTables)},
        f \in {Some(StaticFunctions)},
        w \in BOOLEAN }

PoolSizes == 1..MaxPoolSize

\* ------------------------------------------------------------------ state

VARIABLES
    limit,               \* number of requests the run accepts
    config,              \* Config handed to server::new
    pool_capacity,       \* the size the connection pool was built with
    pool,                \* the connections of the Pool handed to server::new
    db,                  \* current database content
    db_changes,          \* number of changes of the content so far
    started,             \* workers whose app state exists
    table_sources,       \* AppState.table_sources of each worker
    function_sources,    \* AppState.function_sources of each worker
    coordinator_workers, \* CoordinatorActor: the registered worker addresses
    coordinator_mailbox, \* messages sent to the coordinator, oldest first
    worker_mailbox,      \* messages sent to each WorkerActor, oldest first
    db_mailbox,          \* messages sent to the DBActor arbiter, oldest first
    executor,            \* the DBActor threads of the SyncArbiter
    requests,            \* the requests accepted so far, with their handler's locals
    issued,              \* history: the broadcasts the coordinator issued, in order
    applied,             \* history: per worker, the broadcasts it applied, in order
    scanned,             \* history: the catalogs returned by successful scans
    mocked,              \* per worker, the catalogs its state was built with by dev::mock_state
    exited               \* workers whose process has exited

vars == <<limit, config, pool_capacity, pool, db, db_changes, started, table_sources,
          function_sources, coordinator_workers, coordinator_mailbox,
          worker_mailbox, db_mailbox, executor, requests, issued, applied,
          scanned, mocked, exited>>

watch_mode == config.watch

Range(s) == {s[i] : i \in 1..Len(s)}

Slot(kind, w) ==
    IF kind = "table" THEN table_sources[w] ELSE function_sources[w]

IdleExecutor == [state |-> "idle", req |-> 0, msg |-> None, conn |-> 0]

\* connections checked out of the pool
CheckedOut == {executor[e].conn : e \in Executors} \ {0}

\* a pool that hands out one connection more than its configured size
setup_connection_pool_oversized(pool_size) == 1..(pool_size + 1)

\* db::setup_connection_pool: a pool of pool_size connections
setup_connection_pool(pool_size) == 1..pool_size

\* the ids a request can name
RequestIds(kind) ==
    IF kind = "table" THEN {"public.a", "public.b"} ELSE {"public.f"}

Tiles == {[z |-> 1, x |-> 0, y |-> 0]}

NewRequest(w, kind, route, id) ==
    [worker |-> w, kind |-> kind, route |-> route, source_id |-> id,
     pc |-> "await", catalog |-> None, source |-> None, response |-> None,
     status |-> 0, body |-> "", submitted |-> 0, published |-> 0,
     runs |-> 0, used |-> None, answer |-> None, header |-> "none",
     query |-> None, read |-> None, borrowed |-> FALSE]

Init ==
    /\ limit = MaxRequests
    /\ config \in Configs
    /\ pool_capacity = MockPoolSize
    /\ pool = setup_connection_pool(pool_capacity)
    /\ db = InitialContent
    /\ db_changes = 0
    /\ started = {}
    /\ table_sources = [w \in Workers |-> None]
    /\ function_sources = [w \in Workers |-> None]
    /\ coordinator_workers = <<>>
    /\ coordinator_mailbox = <<>>
    /\ worker_mailbox = [w \in Workers |-> <<>>]
    /\ db_mailbox = <<>>
    /\ executor = [e \in Executors |-> IdleExecutor]
    /\ requests = <<>>
    /\ issued = <<>>
    /\ applied = [w \in Workers |-> <<>>]
    /\ scanned = {}
    /\ mocked = [w \in Workers |-> None]
    /\ exited = {}

\* the database content changes (tables created, dropped, altered)
DbChange ==
    /\ db_changes < MaxDbChanges
    /\ \E content \in DbContents \ {db} : db' = content
    /\ db_changes' = db_changes + 1
    /\ UNCHANGED <<limit, mocked, exited, config, pool_capacity, pool, started, table_sources, function_sources,
                   coordinator_workers, coordinator_mailbox, worker_mailbox,
                   db_mailbox, executor, requests, issued, applied, scanned>>

\* server::create_state, run by the HttpServer factory on worker w (a
\* worker that has exited is not started again)
create_state(w) ==
    /\ w \notin started
    /\ w \notin exited
    /\ started' = started \cup {w}
    /\ table_sources' = [table_sources EXCEPT ![w] = config.table_sources]
    /\ function_sources' = [function_sources EXCEPT ![w] = config.function_sources]
    /\ coordinator_mailbox' =
            Append(coordinator_mailbox, [type |-> "Connect", addr |-> w])
    /\ UNCHANGED <<limit, mocked, exited, config, pool_capacity, pool, db, db_changes, coordinator_workers,
                   worker_mailbox, db_mailbox, executor, requests, issued,
                   applied, scanned>>

\* a mock state that connects its registry to the server's coordinator
mock_state_connects(w, tables, functions, watch) ==
    /\ w \notin started
    /\ watch = watch_mode
    /\ started' = started \cup {w}
    /\ table_sources' = [table_sources EXCEPT ![w] = tables]
    /\ function_sources' = [function_sources EXCEPT ![w] = functions]
    /\ mocked' = [mocked EXCEPT ![w] =
            Some([table_sources |-> tables, function_sources |-> functions])]
    /\ coordinator_mailbox' =
            Append(coordinator_mailbox, [type |-> "Connect", addr |-> w])
    /\ UNCHANGED <<limit, exited, config, pool_capacity, pool, db, db_changes,
                   coordinator_workers, worker_mailbox, db_mailbox, executor,
                   requests, issued, applied, scanned>>

\* dev::mock_state on worker w: the slots hold the catalogs given, the
\* coordinator is a new one of its own and no Connect is sent to any (the
\* model keeps one watch flag: the state is built with the configured one)
mock_state(w, tables, functions, watch) ==
    /\ w \notin started
    /\ watch = watch_mode
    /\ started' = started \cup {w}
    /\ table_sources' = [table_sources EXCEPT ![w] = tables]
    /\ function_sources' = [function_sources EXCEPT ![w] = functions]
    /\ mocked' = [mocked EXCEPT ![w] =
            Some([table_sources |-> tables, function_sources |-> functions])]
    /\ UNCHANGED <<limit, exited, config, pool_capacity, pool, db, db_changes,
                   coordinator_workers, coordinator_mailbox, worker_mailbox,
                   db_mailbox, executor, requests, issued, applied, scanned>>

\* --------------------------------------------------------- request handlers

\* an index handler that rescans whatever the watch flag says
rescans_always == TRUE

\* if !state.watch_mode { return the held catalog }: whether an index
\* request rescans the database
rescans == watch_mode

\* a send that is repeated (a retry on the caller's side)
send_twice(r, msg) == <<[req |-> r, msg |-> msg], [req |-> r, msg |-> msg]>>

\* state.db.send(message): the message enters the DBActor mailbox once
send(r, msg) == <<[req |-> r, msg |-> msg]>>

\* a handler that forgets to publish the scanned catalog
publish_nothing(kind, w, sources, r) == <<>>

\* a handler that publishes the scanned catalog twice
publish_twice(kind, w, sources, r) ==
    <<[type |-> "Refresh", kind |-> kind, sources |-> Some(sources), req |-> r],
      [type |-> "Refresh", kind |-> kind, sources |-> Some(sources), req |-> r]>>

\* a handler that publishes the scanned sources added to the catalog it
\* holds, instead of the scanned catalog alone
publish_merged(kind, w, sources, r) ==
    LET old == IF Slot(kind, w).some THEN Slot(kind, w).value ELSE EmptyMap
        both == [x \in DOMAIN old \cup DOMAIN sources |->
                    IF x \in DOMAIN sources THEN sources[x] ELSE old[x]]
    IN  <<[type |-> "Refresh", kind |-> kind, sources |-> Some(both), req |-> r]>>

\* a handler that publishes an absent catalog when the scan found no source
publish_none_when_empty(kind, w, sources, r) ==
    <<[type |-> "Refresh", kind |-> kind,
       sources |-> IF DOMAIN sources = {} THEN None ELSE Some(sources), req |-> r]>>

\* a handler that also publishes an empty catalog of the other kind
publish_both(kind, w, sources, r) ==
    <<[type |-> "Refresh", kind |-> kind, sources |-> Some(sources), req |-> r],
      [type |-> "Refresh", kind |-> IF kind = "table" THEN "function" ELSE "table",
       sources |-> Some(EmptyMap), req |-> r]>>

\* state.coordinator.do_send(Refresh..Sources { Some(sources.clone()) })
publish(kind, w, sources, r) ==
    <<[type |-> "Refresh", kind |-> kind, sources |-> Some(sources), req |-> r]>>

\* a lookup that answers an absent catalog like an unknown source
resolve_conflated(slot, id) ==
    IF ~slot.some \/ id \notin DOMAIN slot.value
    THEN [status |-> 404, body |-> "not_found", source |-> None]
    ELSE [status |-> 0, body |-> "", source |-> Some(slot.value[id])]

\* a read that keeps the Ref of the slot in a local of the handler, alive
\* until the handler returns
borrow_keep(slot) == [value |-> slot, held |-> TRUE]

\* state.<kind>_sources.borrow().clone(): the Ref is a temporary, dropped
\* at the end of the statement; the handler goes on with the copy
borrow_clone(slot) == [value |-> slot, held |-> FALSE]

\* state.<kind>_sources.borrow().clone().ok_or_else(..)?  followed by
\* sources.get(&path.source_id).ok_or_else(..)?
resolve(slot, id) ==
    IF ~slot.some
    THEN [status |-> 404, body |-> "no_sources", source |-> None]
    ELSE IF id \notin DOMAIN slot.value
    THEN [status |-> 404, body |-> "not_found", source |-> None]
    ELSE [status |-> 0, body |-> "", source |-> Some(slot.value[id])]

\* a handler that looks the source up again when the tile arrives
tile_response_relookup(req, result) ==
    IF resolve(Slot(req.kind, req.worker), req.source_id).status # 0
    THEN [status |-> 404, body |-> "not_found"]
    ELSE IF ~result.ok THEN [status |-> 500, body |-> ""]
    ELSE IF Len(result.value) = 0 THEN [status |-> 204, body |-> "tile"]
    ELSE [status |-> 200, body |-> "tile"]

\* a handler that answers every fetched tile with the normal success
tile_response_empty_is_ok(req, result) ==
    IF ~result.ok THEN [status |-> 500, body |-> ""]
    ELSE [status |-> 200, body |-> "tile"]

\* match tile.len() { 0 => NoContent, _ => Ok } after the two map_err
tile_response(req, result) ==
    IF ~result.ok THEN [status |-> 500, body |-> ""]
    ELSE IF Len(result.value) = 0 THEN [status |-> 204, body |-> "tile"]
    ELSE [status |-> 200, body |-> "tile"]

ScanMessage(kind) ==
    [type |-> IF kind = "table" THEN "GetTableSources" ELSE "GetFunctionSources",
     xyz |-> None, source |-> None]

\* get_table_sources / get_function_sources up to the await on the scan
get_sources(kind, w) ==
    /\ w \in started
    /\ Len(requests) < limit
    /\ LET r == Len(requests) + 1
           new == NewRequest(w, kind, "index", "")
       IN  IF ~rescans
           THEN /\ requests' = Append(requests,
                        [new EXCEPT !.pc = "done",
                                    !.catalog = borrow_clone(Slot(kind, w)).value,
                                    !.status = 200, !.body = "sources"])
                /\ db_mailbox' = db_mailbox
           ELSE LET sent == send(r, ScanMessage(kind))
                IN  /\ requests' = Append(requests,
                            [new EXCEPT !.submitted = Len(sent)])
                    /\ db_mailbox' = db_mailbox \o sent
    /\ UNCHANGED <<limit, mocked, exited, config, pool_capacity, pool, db, db_changes, started, table_sources,
                   function_sources, coordinator_workers, coordinator_mailbox,
                   worker_mailbox, executor, issued, applied, scanned>>

\* an index handler that publishes an empty catalog when its scan failed
get_sources_resume_publish_on_error(r) ==
    /\ r \in 1..Len(requests)
    /\ requests[r].route = "index"
    /\ requests[r].pc = "await"
    /\ requests[r].response.some
    /\ LET req == requests[r]
           result == req.response.value
           sent == publish(req.kind, req.worker,
                           IF result.ok THEN result.value ELSE EmptyMap, r)
       IN  /\ requests' = [requests EXCEPT ![r].pc = "done",
                                ![r].status = IF result.ok THEN 200 ELSE 500,
                                ![r].body = IF result.ok THEN "sources" ELSE "",
                                ![r].published = IF result.ok THEN Len(sent) ELSE 0]
           /\ coordinator_mailbox' = coordinator_mailbox \o sent
    /\ UNCHANGED <<limit, mocked, exited, config, pool_capacity, pool, db, db_changes, started,
                   table_sources, function_sources, coordinator_workers,
                   worker_mailbox, db_mailbox, executor, issued, applied, scanned>>

\* get_table_sources / get_function_sources from the scan's result on
\* (state.coordinator of a mock state is a coordinator of its own, where no
\* worker is registered: what is sent to it reaches no registry)
get_sources_resume(r) ==
    /\ r \in 1..Len(requests)
    /\ requests[r].route = "index"
    /\ requests[r].pc = "await"
    /\ requests[r].response.some
    /\ LET req == requests[r]
           result == req.response.value
       IN  IF ~result.ok
           THEN /\ requests' = [requests EXCEPT ![r].pc = "done", ![r].status = 500]
                /\ coordinator_mailbox' = coordinator_mailbox
           ELSE LET sent == publish(req.kind, req.worker, result.value, r)
                IN  /\ requests' = [requests EXCEPT ![r].pc = "done",
                                        ![r].status = 200, ![r].body = "sources",
                                        ![r].published = Len(sent)]
                    /\ coordinator_mailbox' =
                            IF mocked[req.worker].some THEN coordinator_mailbox
                            ELSE coordinator_mailbox \o sent
    /\ UNCHANGED <<limit, mocked, exited, config, pool_capacity, pool, db, db_changes, started, table_sources,
                   function_sources, coordinator_workers, worker_mailbox,
                   db_mailbox, executor, issued, applied, scanned>>

\* get_table_source / get_function_source: the TileJSON of one source;
\* header is the x-rewrite-url header ("none", "text" or "opaque" bytes)
get_source(kind, w, id, header) ==
    /\ w \in started
    /\ Len(requests) < limit
    /\ LET new == NewRequest(w, kind, "json", id)
           table_sources_ref == borrow_clone(Slot(kind, w))
           found == resolve(table_sources_ref.value, id)
           out == IF found.status # 0 THEN [status |-> found.status, body |-> found.body]
                  ELSE IF header = "opaque" THEN [status |-> 400, body |-> "tilejson"]
                  ELSE [status |-> 200, body |-> "tilejson"]
       IN  requests' = Append(requests,
                [new EXCEPT !.pc = "done", !.catalog = table_sources_ref.value,
                            !.source = found.source, !.header = header,
                            !.status = out.status, !.body = out.body])
    /\ UNCHANGED <<limit, mocked, exited, config, pool_capacity, pool, db, db_changes, started, table_sources,
                   function_sources, coordinator_workers, coordinator_mailbox,
                   worker_mailbox, db_mailbox, executor, issued, applied,
                   scanned>>

\* a tile handler that asks for a rescan when the source is not in the
\* catalog it holds, before it answers not-found
get_source_tile_rescan_on_miss(kind, w, id, xyz) ==
    /\ w \in started
    /\ Len(requests) < limit
    /\ LET r == Len(requests) + 1
           new == [NewRequest(w, kind, "tile", id) EXCEPT !.catalog = Slot(kind, w)]
           found == resolve(Slot(kind, w), id)
           sent == IF found.status # 0 THEN send(r, ScanMessage(kind))
                   ELSE send(r, [type |-> "GetTile", xyz |-> Some(xyz),
                                 source |-> found.source])
       IN  /\ requests' = Append(requests,
                IF found.status # 0
                THEN [new EXCEPT !.pc = "done", !.status = found.status,
                                 !.body = found.body, !.submitted = Len(sent)]
                ELSE [new EXCEPT !.source = found.source, !.submitted = Len(sent)])
           /\ db_mailbox' = db_mailbox \o sent
    /\ UNCHANGED <<limit, mocked, exited, config, pool_capacity, pool, db, db_changes, started,
                   table_sources, function_sources, coordinator_workers,
                   coordinator_mailbox, worker_mailbox, executor, issued,
                   applied, scanned>>

\* get_table_source_tile / get_function_source_tile up to the await on the
\* tile
get_source_tile(kind, w, id, xyz) ==
    /\ w \in started
    /\ Len(requests) < limit
    /\ LET r == Len(requests) + 1
           table_sources_ref == borrow_clone(Slot(kind, w))
           new == [NewRequest(w, kind, "tile", id) EXCEPT
                        !.catalog = table_sources_ref.value]
           found == resolve(table_sources_ref.value, id)
       IN  IF found.status # 0
           THEN /\ requests' = Append(requests,
                        [new EXCEPT !.pc = "done", !.status = found.status,
                                    !.body = found.body])
                /\ db_mailbox' = db_mailbox
           ELSE LET sent == send(r, [type |-> "GetTile", xyz |-> Some(xyz),
                                     source |-> found.source])
                IN  /\ requests' = Append(requests,
                            [new EXCEPT !.source = found.source,
                                        !.submitted = Len(sent),
                                        !.borrowed = table_sources_ref.held])
                    /\ db_mailbox' = db_mailbox \o sent
    /\ UNCHANGED <<limit, mocked, exited, config, pool_capacity, pool, db, db_changes, started, table_sources,
                   function_sources, coordinator_workers, coordinator_mailbox,
                   worker_mailbox, executor, issued, applied, scanned>>

\* get_table_source_tile / get_function_source_tile from the tile's result on
get_source_tile_resume(r) ==
    /\ r \in 1..Len(requests)
    /\ requests[r].route = "tile"
    /\ requests[r].pc = "await"
    /\ requests[r].response.some
    /\ LET out == tile_response(requests[r], requests[r].response.value)
       IN  requests' = [requests EXCEPT ![r].pc = "done", ![r].borrowed = FALSE,
                            ![r].status = out.status, ![r].body = out.body]
    /\ UNCHANGED <<limit, mocked, exited, config, pool_capacity, pool, db, db_changes, started, table_sources,
                   function_sources, coordinator_workers, coordinator_mailbox,
                   worker_mailbox, db_mailbox, executor, issued, applied,
                   scanned>>

\* ------------------------------------------------- coordinator and workers

\* CoordinatorActor handling Connect: the address joins the registered list
CoordinatorConnect ==
    /\ coordinator_mailbox # <<>>
    /\ Head(coordinator_mailbox).type = "Connect"
    /\ coordinator_workers' =
            Append(coordinator_workers, Head(coordinator_mailbox).addr)
    /\ coordinator_mailbox' = Tail(coordinator_mailbox)
    /\ UNCHANGED <<limit, mocked, exited, config, pool_capacity, pool, db, db_changes, started, table_sources,
                   function_sources, worker_mailbox, db_mailbox, executor,
                   requests, issued, applied, scanned>>

\* the process of worker w exits: its registry and its WorkerActor are
\* gone with what was queued for them, the requests it was serving are
\* never answered; its address stays in the coordinator's list
WorkerExit(w) ==
    /\ w \in started
    /\ started' = started \ {w}
    /\ exited' = exited \cup {w}
    /\ worker_mailbox' = [worker_mailbox EXCEPT ![w] = <<>>]
    /\ requests' = [r \in DOMAIN requests |->
            IF requests[r].worker = w /\ requests[r].pc = "await"
            THEN [requests[r] EXCEPT !.pc = "aborted"]
            ELSE requests[r]]
    /\ UNCHANGED <<limit, mocked, config, pool_capacity, pool, db, db_changes,
                   table_sources, function_sources, coordinator_workers,
                   coordinator_mailbox, db_mailbox, executor, issued, applied,
                   scanned>>

\* a broadcast that is given up as soon as one address is unreachable
ReachableAllOrNone(to) == IF to \cap exited = {} THEN to ELSE {}

\* the addresses of a broadcast whose do_send reaches a live WorkerActor
Reachable(to) == to \ exited

\* the message a broadcast puts in the mailbox of one registered worker
Broadcast(mailbox, msg, n) ==
    Append(mailbox, [kind |-> msg.kind, sources |-> msg.sources, n |-> n])

\* CoordinatorActor handling RefreshTableSources / RefreshFunctionSources:
\* the replacement is sent to every registered worker
CoordinatorRefresh ==
    /\ coordinator_mailbox # <<>>
    /\ Head(coordinator_mailbox).type = "Refresh"
    /\ LET msg == Head(coordinator_mailbox)
           n == Len(issued) + 1
           to == Range(coordinator_workers)
       IN  /\ worker_mailbox' =
                [w \in Workers |->
                    IF w \in Reachable(to) THEN Broadcast(worker_mailbox[w], msg, n)
                    ELSE worker_mailbox[w]]
           /\ issued' = Append(issued,
                [req |-> msg.req, kind |-> msg.kind, sources |-> msg.sources,
                 to |-> to, dropped |-> to \cap exited])
    /\ coordinator_mailbox' = Tail(coordinator_mailbox)
    /\ UNCHANGED <<limit, mocked, exited, config, pool_capacity, pool, db, db_changes, started, table_sources,
                   function_sources, coordinator_workers, db_mailbox, executor,
                   requests, applied, scanned>>

\* a mailbox served newest first
NextMessageNewest(mailbox) == mailbox[Len(mailbox)]

\* the message a WorkerActor handles next
NextMessage(mailbox) == Head(mailbox)

\* WorkerActor handling a replacement: the slot takes the new catalog
WorkerRefresh(w) ==
    /\ worker_mailbox[w] # <<>>
    /\ LET msg == NextMessage(worker_mailbox[w])
       IN  /\ IF msg.kind = "table"
              THEN /\ table_sources' = [table_sources EXCEPT ![w] = msg.sources]
                   /\ function_sources' = function_sources
              ELSE /\ function_sources' = [function_sources EXCEPT ![w] = msg.sources]
                   /\ table_sources' = table_sources
           /\ applied' = [applied EXCEPT ![w] = Append(@, msg.n)]
           /\ worker_mailbox' = [worker_mailbox EXCEPT ![w] =
                    SelectSeq(@, LAMBDA m : m # msg)]
    /\ UNCHANGED <<limit, mocked, exited, config, pool_capacity, pool, db, db_changes, started, coordinator_workers,
                   coordinator_mailbox, db_mailbox, executor, requests, issued,
                   scanned>>

\* ------------------------------------------------------------ db executors

\* an idle DBActor thread takes the oldest message of the arbiter's queue
\* (the threads are interchangeable: the lowest idle one stands for any)
ExecTake(e) ==
    /\ executor[e].state = "idle"
    /\ \A f \in Executors : executor[f].state = "idle" => e <= f
    /\ db_mailbox # <<>>
    /\ executor' = [executor EXCEPT ![e] =
            [state |-> "acquiring", req |-> Head(db_mailbox).req,
             msg |-> Some(Head(db_mailbox).msg), conn |-> 0]]
    /\ db_mailbox' = Tail(db_mailbox)
    /\ UNCHANGED <<limit, mocked, exited, config, pool_capacity, pool, db, db_changes, started, table_sources,
                   function_sources, coordinator_workers, coordinator_mailbox,
                   worker_mailbox, requests, issued, applied, scanned>>

\* the thread checks a free connection out of the pool
ExecAcquire(e) ==
    /\ executor[e].state = "acquiring"
    /\ \E c \in pool \ CheckedOut :
            /\ \A d \in pool \ CheckedOut : c <= d
            /\ executor' = [executor EXCEPT ![e].state = "running", ![e].conn = c]
    /\ UNCHANGED <<limit, mocked, exited, config, pool_capacity, pool, db, db_changes, started, table_sources,
                   function_sources, coordinator_workers, coordinator_mailbox,
                   worker_mailbox, db_mailbox, requests, issued, applied,
                   scanned>>

\* the checkout fails (the wait for a free connection timed out): the
\* operation ends with an error and is not run
ExecAcquireFail(e) ==
    /\ executor[e].state = "acquiring"
    /\ pool \ CheckedOut = {}
    /\ requests' = [requests EXCEPT ![executor[e].req].response = Some(Err)]
    /\ executor' = [executor EXCEPT ![e] = IdleExecutor]
    /\ UNCHANGED <<limit, mocked, exited, config, pool_capacity, pool, db, db_changes, started, table_sources,
                   function_sources, coordinator_workers, coordinator_mailbox,
                   worker_mailbox, db_mailbox, issued, applied, scanned>>

\* what the caller's send() future resolves to
Reply(result) == IF result.ok THEN result
                 ELSE IF result.error = "panic" THEN MailboxError ELSE result

\* the thread runs the operation on its connection, replies and gives the
\* connection back; a panic ends the thread
ExecRun(e) ==
    /\ executor[e].state = "running"
    /\ LET r == executor[e].req
           msg == executor[e].msg.value
       IN  \E answered \in BOOLEAN, answer \in TileAnswers :
            LET result ==
                    CASE msg.type = "GetTableSources" ->
                            IF answered THEN TableScans[db]
                            ELSE get_table_sources_scan(db, FALSE)
                      [] msg.type = "GetFunctionSources" ->
                            IF answered THEN FunctionScans[db]
                            ELSE get_function_sources_scan(db, FALSE)
                      [] msg.type = "GetTile" ->
                            get_tile(msg.source.value, msg.xyz.value, answer)
            IN  /\ requests' = [requests EXCEPT
                        ![r].response = Some(Reply(result)),
                        ![r].runs = @ + 1,
                        ![r].used = msg.source,
                        ![r].answer = IF msg.type = "GetTile" THEN Some(answer)
                                      ELSE Some([error |-> ~answered, rows |-> <<>>]),
                        ![r].query = IF msg.type = "GetTile" /\ msg.source.value.kind = "table"
                                     THEN Some(get_tile_query(msg.source.value, msg.xyz.value))
                                     ELSE None,
                        ![r].read = IF msg.type = "GetTile" THEN None
                                    ELSE Some(db_changes)]
                /\ scanned' = IF msg.type # "GetTile" /\ result.ok
                              THEN scanned \cup {result.value} ELSE scanned
                /\ executor' = [executor EXCEPT ![e] =
                        IF ~result.ok /\ result.error = "panic"
                        THEN [IdleExecutor EXCEPT !.state = "dead"]
                        ELSE IdleExecutor]
    /\ UNCHANGED <<limit, mocked, exited, config, pool_capacity, pool, db, db_changes, started, table_sources,
                   function_sources, coordinator_workers, coordinator_mailbox,
                   worker_mailbox, db_mailbox, issued, applied>>

\* --------------------------------------------------------------- behaviour

Next ==
    \/ DbChange
    \/ \E w \in Workers : create_state(w)
    \/ \E w \in Workers, kind \in {"table", "function"} : get_sources(kind, w)
    \/ \E r \in DOMAIN requests : get_sources_resume(r)
    \/ \E w \in Workers, kind \in {"table", "function"} :
          \E id \in RequestIds(kind), header \in {"none", "opaque"} :
              get_source(kind, w, id, header)
    \/ \E w \in Workers, kind \in {"table", "function"} :
          \E id \in RequestIds(kind), xyz \in Tiles :
              get_source_tile(kind, w, id, xyz)
    \/ \E r \in DOMAIN requests : get_source_tile_resume(r)
    \/ CoordinatorConnect
    \/ CoordinatorRefresh
    \/ \E w \in Workers : WorkerRefresh(w)
    \/ \E e \in Executors : ExecTake(e)
    \/ \E e \in Executors : ExecAcquire(e)
    \/ \E e \in Executors : ExecAcquireFail(e)
    \/ \E e \in Executors : ExecRun(e)

Spec == Init /\ [][Next]_vars

\* Watch mode with fair scheduling: every actor handles the messages in its
\* mailbox, every executor thread takes and runs the operations queued for
\* it, every handler resumes when its reply has arrived. Requests and
\* database changes may stop at any time.
WatchInit ==
    /\ Init
    /\ config.watch

WatchNext ==
    \/ DbChange
    \/ \E w \in Workers : create_state(w)
    \/ \E w \in Workers, kind \in {"table", "function"} : get_sources(kind, w)
    \/ \E r \in DOMAIN requests : get_sources_resume(r)
    \/ CoordinatorConnect
    \/ CoordinatorRefresh
    \/ \E w \in Workers : WorkerRefresh(w)
    \/ \E e \in Executors : ExecTake(e)
    \/ \E e \in Executors : ExecAcquire(e)
    \/ \E e \in Executors : ExecAcquireFail(e)
    \/ \E e \in Executors : ExecRun(e)

Fairness ==
    /\ \A r \in 1..MaxRequests : WF_vars(get_sources_resume(r))
    /\ WF_vars(CoordinatorConnect)
    /\ WF_vars(CoordinatorRefresh)
    /\ \A w \in Workers : WF_vars(WorkerRefresh(w))
    /\ \A e \in Executors : WF_vars(ExecTake(e))
    /\ \A e \in Executors : WF_vars(ExecAcquire(e))
    /\ \A e \in Executors : WF_vars(ExecRun(e))

WatchSpec == WatchInit /\ [][WatchNext]_vars /\ Fairness

\* The executor pool under load: one worker is up and registered in watch
\* mode, the pool has any of the sizes tried, and up to MaxOps requests for
\* table sources are accepted.
PoolInit ==
    /\ limit = MaxOps
    /\ config \in {c \in Configs : c.table_sources.some /\ c.watch}
    /\ pool_capacity \in PoolSizes
    /\ pool = setup_connection_pool(pool_capacity)
    /\ db = InitialContent
    /\ db_changes = 0
    /\ started = {1}
    /\ table_sources = [w \in Workers |-> IF w = 1 THEN config.table_sources ELSE None]
    /\ function_sources = [w \in Workers |-> IF w = 1 THEN config.function_sources ELSE None]
    /\ coordinator_workers = <<1>>
    /\ coordinator_mailbox = <<>>
    /\ worker_mailbox = [w \in Workers |-> <<>>]
    /\ db_mailbox = <<>>
    /\ executor = [e \in Executors |-> IdleExecutor]
    /\ requests = <<>>
    /\ issued = <<>>
    /\ applied = [w \in Workers |-> <<>>]
    /\ scanned = {}
    /\ mocked = [w \in Workers |-> None]
    /\ exited = {}

PoolNext ==
    \/ \E w \in Workers : get_sources("table", w)
    \/ \E r \in DOMAIN requests : get_sources_resume(r)
    \/ \E w \in Workers, id \in RequestIds("table"), xyz \in Tiles :
          get_source_tile("table", w, id, xyz)
    \/ \E r \in DOMAIN requests : get_source_tile_resume(r)
    \/ \E e \in Executors : ExecTake(e)
    \/ \E e \in Executors : ExecAcquire(e)
    \/ \E e \in Executors : ExecAcquireFail(e)
    \/ \E e \in Executors : ExecRun(e)

PoolSpec == PoolInit /\ [][PoolNext]_vars

\* The table scan on every listing: one worker is up and registered in
\* watch mode, the database holds any of the listings of ScanContents and
\* does not change, and up to MaxScans table index requests are accepted.
ScanInit ==
    /\ limit = MaxScans
    /\ config \in {c \in Configs : c.table_sources.some /\ c.watch}
    /\ pool_capacity = MockPoolSize
    /\ pool = setup_connection_pool(pool_capacity)
    /\ db \in ScanContents
    /\ db_changes = 0
    /\ started = {1}
    /\ table_sources = [w \in Workers |-> IF w = 1 THEN config.table_sources ELSE None]
    /\ function_sources = [w \in Workers |-> IF w = 1 THEN config.function_sources ELSE None]
    /\ coordinator_workers = <<1>>
    /\ coordinator_mailbox = <<>>
    /\ worker_mailbox = [w \in Workers |-> <<>>]
    /\ db_mailbox = <<>>
    /\ executor = [e \in Executors |-> IdleExecutor]
    /\ requests = <<>>
    /\ issued = <<>>
    /\ applied = [w \in Workers |-> <<>>]
    /\ scanned = {}
    /\ mocked = [w \in Workers |-> None]
    /\ exited = {}

ScanNext ==
    \/ \E w \in Workers : get_sources("table", w)
    \/ \E r \in DOMAIN requests : get_sources_resume(r)
    \/ CoordinatorRefresh
    \/ \E w \in Workers : WorkerRefresh(w)
    \/ \E e \in Executors : ExecTake(e)
    \/ \E e \in Executors : ExecAcquire(e)
    \/ \E e \in Executors : ExecRun(e)

ScanSpec == ScanInit /\ [][ScanNext]_vars

\* Watch mode with states built by create_state and by dev::mock_state
\* side by side.
MockInit ==
    /\ Init
    /\ config.watch

MockNext ==
    \/ \E w \in Workers : create_state(w)
    \/ \E w \in Workers, tables \in {None, Some(StaticTables)} :
          mock_state(w, tables, Some(StaticFunctions), TRUE)
    \/ \E w \in Workers, kind \in {"table", "function"} : get_sources(kind, w)
    \/ \E r \in DOMAIN requests : get_sources_resume(r)
    \/ CoordinatorConnect
    \/ CoordinatorRefresh
    \/ \E w \in Workers : WorkerRefresh(w)
    \/ \E e \in Executors : ExecTake(e)
    \/ \E e \in Executors : ExecAcquire(e)
    \/ \E e \in Executors : ExecRun(e)

MockSpec == MockInit /\ [][MockNext]_vars

\* Watch mode with worker processes that exit.
ExitInit ==
    /\ Init
    /\ config.watch

ExitNext ==
    \/ \E w \in Workers : create_state(w)
    \/ \E w \in Workers : WorkerExit(w)
    \/ \E w \in Workers, kind \in {"table", "function"} : get_sources(kind, w)
    \/ \E r \in DOMAIN requests : get_sources_resume(r)
    \/ CoordinatorConnect
    \/ CoordinatorRefresh
    \/ \E w \in Workers : WorkerRefresh(w)
    \/ \E e \in Executors : ExecTake(e)
    \/ \E e \in Executors : ExecAcquire(e)
    \/ \E e \in Executors : ExecRun(e)

ExitSpec == ExitInit /\ [][ExitNext]_vars

\* The executors with the pool of one connection of dev::mock_state under
\* fair scheduling: one worker is up in watch mode, the database holds the
\* initial listing or one with a short box and answers every query, up to
\* MaxOps table index requests are accepted. Every thread takes the
\* messages queued, its wait for a connection ends (with a connection or
\* with the pool's timeout error), and it runs what it holds.
LiveInit ==
    /\ limit = MaxOps
    /\ config \in {c \in Configs : c.table_sources.some /\ c.watch}
    /\ pool_capacity = MockPoolSize
    /\ pool = setup_connection_pool(pool_capacity)
    /\ db \in {InitialContent, [tables |-> <<RowA, RowShort>>, functions |-> <<RowF>>]}
    /\ db_changes = 0
    /\ started = {1}
    /\ table_sources = [w \in Workers |-> IF w = 1 THEN config.table_sources ELSE None]
    /\ function_sources = [w \in Workers |-> IF w = 1 THEN config.function_sources ELSE None]
    /\ coordinator_workers = <<1>>
    /\ coordinator_mailbox = <<>>
    /\ worker_mailbox = [w \in Workers |-> <<>>]
    /\ db_mailbox = <<>>
    /\ executor = [e \in Executors |-> IdleExecutor]
    /\ requests = <<>>
    /\ issued = <<>>
    /\ applied = [w \in Workers |-> <<>>]
    /\ scanned = {}
    /\ mocked = [w \in Workers |-> None]
    /\ exited = {}

LiveNext ==
    \/ \E w \in Workers : get_sources("table", w)
    \/ \E r \in DOMAIN requests : get_sources_resume(r)
    \/ CoordinatorRefresh
    \/ \E w \in Workers : WorkerRefresh(w)
    \/ \E e \in Executors : ExecTake(e)
    \/ \E e \in Executors : ExecAcquire(e)
    \/ \E e \in Executors : ExecAcquireFail(e)
    \/ \E e \in Executors : ExecRun(e)

LiveFairness ==
    /\ \A e \in Executors : WF_vars(ExecTake(e))
    /\ \A e \in Executors : WF_vars(ExecAcquire(e) \/ ExecAcquireFail(e))
    /\ \A e \in Executors : WF_vars(ExecRun(e))

LiveSpec == LiveInit /\ [][LiveNext]_vars /\ LiveFairness

\* ------------------------------------------------------------------ claims

Requests == DOMAIN requests

Done(r) == requests[r].pc = "done"

\* the catalogs that exist as a whole: the configured seeds and the
\* catalogs returned by scans
WholeCatalogs ==
    {c.value : c \in {x \in {config.table_sources, config.function_sources} : x.some}}
        \cup scanned

\* nothing is on its way to a registry: every index request has answered,
\* the coordinator has no replacement left to issue, every worker mailbox
\* is empty
Quiet ==
    /\ \A r \in Requests : requests[r].route = "index" => Done(r)
    /\ \A i \in 1..Len(coordinator_mailbox) : coordinator_mailbox[i].type # "Refresh"
    /\ \A w \in Workers : worker_mailbox[w] = <<>>

Issues(kind) == {i \in 1..Len(issued) : issued[i].kind = kind}

LastIssue(kind) == CHOOSE i \in Issues(kind) : \A j \in Issues(kind) : j <= i

\* the broadcast that carries the catalog published by request r has been
\* issued, to a set of registries that includes the publisher's own, and
\* every registry of that set has applied it
Delivered(r) ==
    \E i \in 1..Len(issued) :
        /\ issued[i].req = r
        /\ requests[r].worker \in issued[i].to
        /\ \A w \in issued[i].to : i \in Range(applied[w])

Published(r) ==
    /\ r \in Requests
    /\ requests[r].route = "index"
    /\ Done(r)
    /\ requests[r].status = 200

IsIncreasing(s) == \A i, j \in 1..Len(s) : i < j => s[i] < s[j]

\* C2: every registry applies the coordinator's broadcasts in the order
\* the coordinator issued them (increasing issue numbers), and only
\* broadcasts that were addressed to it.
C2_IssuanceOrder ==
    \A w \in Workers :
        /\ IsIncreasing(applied[w])
        /\ \A i \in 1..Len(applied[w]) :
            /\ applied[w][i] \in 1..Len(issued)
            /\ w \in issued[applied[w][i]].to

\* two broadcasts published by requests of two different workers, issued
\* in the opposite order of the requests' arrival, both applied by one
\* registry
C2_Witness ==
    \E w \in Workers :
        /\ applied[w] = <<1, 2>>
        /\ requests[issued[1].req].worker # requests[issued[2].req].worker
        /\ issued[1].req > issued[2].req

\* C3: whatever a handler reads from the registry, and whatever a slot
\* holds, is absent or one whole catalog (a seed or the result of one
\* scan), never a mix of two.
C3_AtomicReplacement ==
    /\ \A r \in Requests :
        requests[r].catalog.some => requests[r].catalog.value \in WholeCatalogs
    /\ \A w \in started :
        /\ table_sources[w].some => table_sources[w].value \in WholeCatalogs
        /\ function_sources[w].some => function_sources[w].value \in WholeCatalogs

\* a handler read, after a replacement was applied on its worker, a table
\* catalog that is not the seed and shares no source with it
C3_Witness ==
    \E r \in Requests :
        /\ requests[r].kind = "table"
        /\ requests[r].catalog.some
        /\ config.table_sources.some
        /\ DOMAIN requests[r].catalog.value # {}
        /\ DOMAIN requests[r].catalog.value \cap DOMAIN config.table_sources.value = {}
        /\ applied[requests[r].worker] # <<>>

\* C4: a tile request that resolved its source runs its fetch with that
\* source definition, and its outcome is decided by the fetch alone:
\* success (200 or 204) when the fetch succeeds, 500 when it fails,
\* whatever the registry holds by then.
C4_ResolvedSourceUsed ==
    \A r \in Requests :
        (requests[r].route = "tile" /\ requests[r].source.some) =>
            /\ requests[r].runs > 0 => requests[r].used = requests[r].source
            /\ Done(r) =>
                LET result == requests[r].response.value
                IN  requests[r].status =
                        IF ~result.ok THEN 500
                        ELSE IF Len(result.value) = 0 THEN 204 ELSE 200

\* a tile request whose fetch has succeeded and that has not answered yet,
\* on a worker whose catalog was replaced meanwhile by one without the
\* source
C4_Witness ==
    \E r \in Requests :
        /\ requests[r].route = "tile"
        /\ requests[r].pc = "await"
        /\ requests[r].source.some
        /\ requests[r].response.some
        /\ requests[r].response.value.ok
        /\ Slot(requests[r].kind, requests[r].worker).some
        /\ requests[r].source_id \notin
                DOMAIN Slot(requests[r].kind, requests[r].worker).value

IndexRequests == {r \in Requests : requests[r].route = "index"}

SuccessfulScans ==
    {r \in IndexRequests : requests[r].response.some /\ requests[r].response.value.ok}

PendingRefreshes ==
    Len(SelectSeq(coordinator_mailbox, LAMBDA m : m.type = "Refresh"))

\* C5: in watch mode an index request submits exactly one scan, which runs
\* at most once; it publishes exactly one replacement when the scan
\* succeeds and none when it fails; the broadcasts issued or waiting to be
\* issued never outnumber the successful scans.
C5_OneScanOneBroadcast ==
    watch_mode =>
        /\ \A r \in IndexRequests :
            /\ requests[r].submitted = 1
            /\ requests[r].runs <= 1
            /\ ~Done(r) => requests[r].published = 0
            /\ Done(r) => requests[r].published =
                                IF requests[r].response.value.ok THEN 1 ELSE 0
        /\ Len(issued) + PendingRefreshes <= Cardinality(SuccessfulScans)

\* a table index and a function index request, both answered from a
\* successful scan, with both replacements issued
C5_Witness ==
    /\ watch_mode
    /\ Len(issued) = 2
    /\ \E r1, r2 \in IndexRequests :
        /\ requests[r1].kind = "table" /\ requests[r2].kind = "function"
        /\ Done(r1) /\ Done(r2)
        /\ requests[r1].status = 200 /\ requests[r2].status = 200

\* C6: with watch mode off no index request submits a scan, nothing is
\* published to or issued by the coordinator, and every registry keeps its
\* seeded catalogs.
C6_StaticCatalog ==
    ~watch_mode =>
        /\ \A r \in IndexRequests : requests[r].submitted = 0 /\ requests[r].published = 0
        /\ \A i \in 1..Len(db_mailbox) : db_mailbox[i].msg.type = "GetTile"
        /\ PendingRefreshes = 0
        /\ issued = <<>>
        /\ \A w \in Workers : worker_mailbox[w] = <<>> /\ applied[w] = <<>>
        /\ \A w \in started :
            /\ table_sources[w] = config.table_sources
            /\ function_sources[w] = config.function_sources

\* watch mode off, the database changed, a registered worker answered an
\* index request and a tile request
C6_Witness ==
    /\ ~watch_mode
    /\ db_changes > 0
    /\ \E r1, r2 \in Requests :
        /\ requests[r1].route = "index" /\ Done(r1)
        /\ requests[r2].route = "tile" /\ Done(r2) /\ requests[r2].status = 200
        /\ requests[r1].worker \in Range(coordinator_workers)

Lookups == {r \in Requests : requests[r].route \in {"json", "tile"}}

\* C7: a TileJSON or tile request whose source id is not in the catalog it
\* read ends not-found at once, and nothing was ever submitted to the
\* executors for it: no message, no executor, no run.
C7_NotFoundBeforeDb ==
    \A r \in Lookups :
        (requests[r].catalog.some
            /\ requests[r].source_id \notin DOMAIN requests[r].catalog.value) =>
                /\ Done(r)
                /\ requests[r].status = 404
                /\ requests[r].submitted = 0
                /\ requests[r].runs = 0
                /\ ~requests[r].response.some
                /\ \A i \in 1..Len(db_mailbox) : db_mailbox[i].req # r
                /\ \A e \in Executors : executor[e].req # r

\* a tile request answered not-found against a catalog that holds other
\* sources
C7_Witness ==
    \E r \in Lookups :
        /\ requests[r].route = "tile"
        /\ requests[r].status = 404
        /\ requests[r].body = "not_found"
        /\ requests[r].catalog.some
        /\ DOMAIN requests[r].catalog.value # {}

Busy == {e \in Executors : executor[e].state \in {"acquiring", "running"}}

\* C8: a connection is held by at most one executor, an executor runs an
\* operation only while it holds one, and the connections checked out
\* never outnumber the size the pool was built with.
C8_ExclusiveConnections ==
    /\ \A e, f \in Executors :
        (e # f /\ executor[e].conn # 0) => executor[e].conn # executor[f].conn
    /\ \A e \in Executors : executor[e].state = "running" <=> executor[e].conn # 0
    /\ Cardinality(CheckedOut) <= pool_capacity

\* a pool of one connection with the three executors busy: one holds the
\* connection, two wait for it
C8_Witness ==
    /\ pool_capacity = 1
    /\ Busy = Executors
    /\ \E e \in Executors : executor[e].conn = 1

Queued(r) == Len(SelectSeq(db_mailbox, LAMBDA m : m.req = r))

Held(r) == Cardinality({e \in Busy : executor[e].req = r})

InFlight == {r \in Requests : requests[r].submitted > 0 /\ Queued(r) = 0
                                /\ ~requests[r].response.some}

\* C9: an operation submitted to the executors is in exactly one place
\* (queued, held by one executor, or replied to), is run at most once, is
\* not queued or held again once it has its reply, and a failed one makes
\* its request end with the 500 outcome; at most NumExecutors operations
\* are out of the queue and without a reply at any time.
C9_ExactlyOneExecutor ==
    /\ \A r \in Requests :
        /\ requests[r].submitted <= 1
        /\ requests[r].runs <= 1
        /\ Queued(r) + Held(r) + (IF requests[r].response.some THEN 1 ELSE 0)
                = requests[r].submitted
        /\ requests[r].runs = 1 => requests[r].response.some
        /\ (Done(r) /\ requests[r].response.some /\ ~requests[r].response.value.ok)
                => requests[r].status = 500
    /\ Cardinality(InFlight) <= NumExecutors

\* three operations are held by the three executors while a fourth request
\* has ended with 500 after its operation ran once and failed
C9_Witness ==
    /\ Cardinality(InFlight) = NumExecutors
    /\ \E r \in Requests :
        /\ Done(r)
        /\ requests[r].runs = 1
        /\ ~requests[r].response.value.ok
        /\ requests[r].status = 500

\* the table scans that ran with the metadata query answered
AnsweredTableScans ==
    {r \in IndexRequests :
        /\ requests[r].kind = "table"
        /\ requests[r].runs > 0
        /\ ~requests[r].answer.value.error}

TableCatalogs == {c \in scanned : \A id \in DOMAIN c : c[id].kind = "table"}

\* C11 (as claimed): a table scan of a listing with an SRID 0 row, whose
\* other rows are fine, succeeds with the catalog of the other rows,
\* whatever the bounding-box query of the SRID 0 row gives; no scanned
\* catalog holds a source with SRID 0.
C11_Srid0RowSkipped ==
    /\ \A r \in AnsweredTableScans :
        LET rest == SelectSeq(db.tables, LAMBDA row : row.srid # 0)
            expected == ScanTableRows(rest, EmptyMap)
        IN  ((\E i \in 1..Len(db.tables) : db.tables[i].srid = 0) /\ expected.ok) =>
                requests[r].response.value = Ok(expected.value)
    /\ \A c \in TableCatalogs : \A id \in DOMAIN c : c[id].srid # 0

\* the text is four fields that are numbers, once the box syntax is removed
FourFloats(text) ==
    LET fields == Split(Replace(Replace(Replace(Replace(text, <<"(">>, <<>>),
                        <<")">>, <<>>), <<"B","O","X">>, <<>>), <<" ">>, <<",">>), ",")
    IN  /\ Len(fields) = 4
        /\ \A i \in 1..4 : ParseF32(fields[i]).ok

Malformed(row) ==
    /\ ~row.bounds.error
    /\ row.bounds.rows # <<>>
    /\ ~Head(row.bounds.rows).null
    /\ ~FourFloats(Head(row.bounds.rows).text)

\* C12 (as claimed): a table scan of a listing in which some row's bounds
\* text is not four floats ends with the scan's error result and no
\* catalog; every source of a scanned catalog has exactly 4 bounds values.
C12_MalformedBoundsIsDbError ==
    /\ \A r \in AnsweredTableScans :
        (\E i \in 1..Len(db.tables) : Malformed(db.tables[i])) =>
            requests[r].response.value = Err
    /\ \A c \in TableCatalogs : \A id \in DOMAIN c : Len(c[id].bounds) = 4

\* C13: every answered TileJSON or tile request has the outcome of its
\* cause and no other: an id missing from the catalog read gives 404
\* "not found"; a TileJSON that cannot be built gives 400; a fetch that
\* failed in the executors or in the query gives 500; a fetched tile of
\* length zero gives 204 and a longer one 200; and each of these outcomes
\* occurs for its cause only.
C13_OutcomesByCause ==
    \A r \in Lookups :
        Done(r) =>
            LET q == requests[r]
                missing == q.catalog.some /\ q.source_id \notin DOMAIN q.catalog.value
                fetched == q.route = "tile" /\ q.source.some
            IN  /\ missing => (q.status = 404 /\ q.body = "not_found")
                /\ (q.route = "json" /\ q.source.some) =>
                        q.status = IF q.header = "opaque" THEN 400 ELSE 200
                /\ fetched =>
                        q.status = IF ~q.response.value.ok THEN 500
                                   ELSE IF Len(q.response.value.value) = 0 THEN 204
                                   ELSE 200
                /\ q.status = 404 => ~q.source.some
                /\ q.status = 400 => (q.route = "json" /\ q.header = "opaque")
                /\ q.status = 500 => (fetched /\ ~q.response.value.ok)
                /\ q.status = 204 => (fetched /\ q.response.value.ok)
                /\ q.status \in {200, 204, 400, 404, 500}

\* a tile request answered 204 from a fetched tile of length zero and a
\* tile request answered 500 from a failed fetch
C13_Witness ==
    \E r1, r2 \in Lookups :
        /\ Done(r1) /\ requests[r1].status = 204
        /\ requests[r1].response.value = Ok(<<>>)
        /\ Done(r2) /\ requests[r2].status = 500
        /\ ~requests[r2].response.value.ok

Seed(kind) == IF kind = "table" THEN config.table_sources ELSE config.function_sources

\* C17: an index request whose scan failed publishes nothing and ends with
\* 500; no broadcast is issued for it; a registry holds its seed or the
\* catalog of a broadcast it applied, and every such broadcast carries the
\* catalog of a scan that succeeded.
C17_FailedScanPublishesNothing ==
    /\ \A r \in IndexRequests :
        (requests[r].response.some /\ ~requests[r].response.value.ok) =>
            /\ requests[r].published = 0
            /\ Done(r) => requests[r].status = 500
            /\ \A i \in 1..Len(coordinator_mailbox) :
                    coordinator_mailbox[i].type = "Refresh" => coordinator_mailbox[i].req # r
            /\ \A i \in 1..Len(issued) : issued[i].req # r
    /\ \A w \in started : \A kind \in {"table", "function"} :
        \/ Slot(kind, w) = Seed(kind)
        \/ \E i \in Range(applied[w]) :
                /\ issued[i].kind = kind
                /\ issued[i].sources = Slot(kind, w)
                /\ issued[i].req \in SuccessfulScans

\* in watch mode a table index request has ended with 500 after its scan
\* panicked on the listing, and another after its metadata query failed;
\* nothing was issued and every registry holds its seed
C17_Witness ==
    /\ watch_mode
    /\ issued = <<>>
    /\ coordinator_workers # <<>>
    /\ \E r1, r2 \in IndexRequests :
        /\ Done(r1) /\ requests[r1].status = 500
        /\ requests[r1].response.value = MailboxError
        /\ Done(r2) /\ requests[r2].status = 500
        /\ requests[r2].response.value = Err
    /\ \A w \in started : \A kind \in {"table", "function"} : Slot(kind, w) = Seed(kind)

\* C18: a TileJSON or tile request that finds no catalog in the registry
\* ends at once with the "no sources" outcome, and nothing was ever
\* submitted to the executors for it; a request that finds a catalog
\* without its id, an empty catalog included, ends with the "not found"
\* outcome, which is a different one.
C18_NoCatalogIsImmediate ==
    \A r \in Lookups :
        /\ ~requests[r].catalog.some =>
                /\ Done(r)
                /\ requests[r].status = 404
                /\ requests[r].body = "no_sources"
                /\ requests[r].submitted = 0
                /\ requests[r].runs = 0
                /\ ~requests[r].response.some
                /\ \A i \in 1..Len(db_mailbox) : db_mailbox[i].req # r
                /\ \A e \in Executors : executor[e].req # r
        /\ (requests[r].catalog.some
                /\ requests[r].source_id \notin DOMAIN requests[r].catalog.value) =>
                    requests[r].body = "not_found"

\* in watch mode, before any scan, a tile request was answered "no
\* sources" by a registry without a table catalog
C18_Witness ==
    /\ watch_mode
    /\ \E r \in Lookups :
        /\ requests[r].route = "tile"
        /\ requests[r].kind = "table"
        /\ ~requests[r].catalog.some
        /\ requests[r].body = "no_sources"
        /\ table_sources[requests[r].worker] = None

Reprojects(fragment) == "ST_Transform(" \in Range(fragment)

\* C16: the query of a tile fetch from a table source with SRID 3857 uses
\* the geometry column and the tile envelope as they are, with no
\* reprojection; for any other SRID the geometry is reprojected to 3857
\* and the envelope of the spatial filter to the SRID of the source.
C16_ReprojectionBySrid ==
    \A r \in Requests :
        requests[r].query.some =>
            LET source == requests[r].used.value
                q == requests[r].query.value
            IN  IF source.srid = 3857
                THEN /\ q.geometry_column_mercator = <<source.geometry_column>>
                     /\ q.original_bounds = q.mercator_bounds
                     /\ ~Reprojects(q.geometry_column_mercator)
                     /\ ~Reprojects(q.original_bounds)
                ELSE /\ q.geometry_column_mercator =
                            <<"ST_Transform(", source.geometry_column, ",", "3857", ")">>
                     /\ q.original_bounds =
                            <<"ST_Transform(">> \o q.mercator_bounds
                                \o <<",", ToString(source.srid), ")">>
                     /\ ~Reprojects(q.mercator_bounds)

\* a tile was fetched from a scanned table source with SRID 4326
C16_Witness ==
    \E r \in Requests :
        /\ requests[r].query.some
        /\ requests[r].used.value.srid = 4326
        /\ requests[r].runs = 1
        /\ Reprojects(requests[r].query.value.original_bounds)

\* the number of database changes that preceded the scan whose catalog
\* broadcast i carries
ReadAt(i) == requests[issued[i].req].read.value

\* C20 (as claimed): a registry never replaces a catalog built from a later
\* database state with one built from an earlier state: the broadcasts of
\* one kind that a registry applies carry catalogs of non-decreasing
\* database states.
C20_FreshnessMonotone ==
    \A w \in Workers :
        \A i, j \in 1..Len(applied[w]) :
            (i < j /\ issued[applied[w][i]].kind = issued[applied[w][j]].kind) =>
                ReadAt(applied[w][i]) <= ReadAt(applied[w][j])

\* the catalogs the state of worker w was built with
SeedOf(w) ==
    IF mocked[w].some THEN mocked[w].value
    ELSE [table_sources |-> config.table_sources,
          function_sources |-> config.function_sources]

Registered == Range(coordinator_workers)

\* C14: a registry that is not registered with the coordinator has
\* received and applied no broadcast and holds the catalogs its state was
\* built with (absent ones stay absent); broadcasts are addressed to
\* registered registries only; a registry built by mock_state is never
\* registered.
C14_UnregisteredKeepsCatalog ==
    /\ \A w \in started \ Registered :
        /\ worker_mailbox[w] = <<>>
        /\ applied[w] = <<>>
        /\ table_sources[w] = SeedOf(w).table_sources
        /\ function_sources[w] = SeedOf(w).function_sources
    /\ \A i \in 1..Len(issued) : issued[i].to \subseteq Registered
    /\ \A w \in Workers : mocked[w].some => w \notin Registered

\* a registry built by mock_state without a table catalog answered a
\* watch-mode table index request from a successful scan and still has no
\* table catalog, while a registered registry has applied a broadcast and
\* holds a table catalog that is not its seed
C14_Witness ==
    \E w1, w2 \in started :
        /\ mocked[w1].some
        /\ table_sources[w1] = None
        /\ \E r \in IndexRequests :
            /\ requests[r].worker = w1 /\ requests[r].kind = "table"
            /\ Done(r) /\ requests[r].status = 200 /\ requests[r].published = 1
        /\ w2 \in Registered
        /\ applied[w2] # <<>>
        /\ table_sources[w2] # config.table_sources
        /\ coordinator_mailbox = <<>>

\* broadcast i is queued for registry w
QueuedFor(w, i) == \E k \in 1..Len(worker_mailbox[w]) : worker_mailbox[w][k].n = i

\* C15: a broadcast issued while a registered registry was unreachable is
\* dropped for that registry (never queued for it, never applied by it)
\* and is queued for or applied by every other registered registry that is
\* alive; it is issued once, never again; and an index request whose scan
\* succeeded on a live worker ends with the success outcome whoever was
\* unreachable.
C15_DeadRegistryDropped ==
    /\ \A i \in 1..Len(issued) :
        /\ \A w \in issued[i].dropped :
                ~QueuedFor(w, i) /\ i \notin Range(applied[w])
        /\ \A w \in (issued[i].to \ issued[i].dropped) \ exited :
                QueuedFor(w, i) \/ i \in Range(applied[w])
        /\ \A j \in 1..Len(issued) : issued[i].req = issued[j].req => i = j
    /\ \A w \in Workers :
        /\ IsIncreasing(applied[w])
        /\ \A k, l \in 1..Len(worker_mailbox[w]) :
                worker_mailbox[w][k].n = worker_mailbox[w][l].n => k = l
        /\ \A k \in 1..Len(worker_mailbox[w]) :
                worker_mailbox[w][k].n \notin Range(applied[w])
    /\ \A w \in exited : worker_mailbox[w] = <<>>
    /\ \A r \in IndexRequests :
        (Done(r) /\ requests[r].response.value.ok) =>
            /\ requests[r].status = 200
            /\ requests[r].published = 1

\* both workers were registered, worker w2 exited, then an index request
\* of worker w1 succeeded: its broadcast was addressed to both, dropped
\* for w2 and applied by w1
C15_Witness ==
    \E w1, w2 \in Workers :
        /\ w1 # w2
        /\ Len(issued) >= 1
        /\ issued[Len(issued)].to = {w1, w2}
        /\ issued[Len(issued)].dropped = {w2}
        /\ requests[issued[Len(issued)].req].worker = w1
        /\ requests[issued[Len(issued)].req].status = 200
        /\ Len(issued) \in Range(applied[w1])
        /\ table_sources[w1] = issued[Len(issued)].sources

C21_PopulatedStaysPopulated ==
    /\ [](/\ \A i \in 1..Len(coordinator_mailbox) :
                coordinator_mailbox[i].type = "Refresh" => coordinator_mailbox[i].sources.some
          /\ \A i \in 1..Len(issued) : issued[i].sources.some
          /\ \A w \in Workers : \A k \in 1..Len(worker_mailbox[w]) :
                worker_mailbox[w][k].sources.some)
    /\ [][\A w \in Workers :
            /\ table_sources[w].some => table_sources'[w].some
            /\ function_sources[w].some => function_sources'[w].some]_vars

\* a registry seeded without a table catalog holds one after a broadcast,
\* and its function catalog, replaced by the result of a scan that found
\* no function, is present with zero sources
C21_Witness ==
    \E w \in started :
        /\ config.table_sources = None
        /\ table_sources[w].some
        /\ function_sources[w] = Some(EmptyMap)
        /\ Len(applied[w]) = 2

\* the broadcast a registry applies in a step that extends applied[w]
Applying(w) == issued[applied[w]'[Len(applied[w]')]]

\* C22: every replacement published or issued is of the kind of the index
\* request it comes from; a step in which a registry applies a broadcast
\* of one kind puts its catalog in the slot of that kind and leaves the
\* slot of the other kind as it is; and no other step changes a slot of a
\* started worker, the steps of the index handlers included.
C22_IndependentCatalogs ==
    /\ [](/\ \A i \in 1..Len(coordinator_mailbox) :
                coordinator_mailbox[i].type = "Refresh" =>
                    coordinator_mailbox[i].kind = requests[coordinator_mailbox[i].req].kind
          /\ \A i \in 1..Len(issued) : issued[i].kind = requests[issued[i].req].kind)
    /\ [][\A w \in started :
            IF applied[w]' # applied[w]
            THEN IF Applying(w).kind = "table"
                 THEN /\ table_sources'[w] = Applying(w).sources
                      /\ function_sources'[w] = function_sources[w]
                 ELSE /\ function_sources'[w] = Applying(w).sources
                      /\ table_sources'[w] = table_sources[w]
            ELSE /\ table_sources'[w] = table_sources[w]
                 /\ function_sources'[w] = function_sources[w]]_vars

\* the database lost its functions and changed its tables; a registry has
\* applied the broadcast of a table index request only: it holds the new
\* table catalog and still the function catalog it was seeded with
C22_Witness ==
    \E w \in started :
        /\ db.functions = <<>>
        /\ Len(applied[w]) = 1
        /\ issued[applied[w][1]].kind = "table"
        /\ table_sources[w] = Some(TableScans[db].value)
        /\ table_sources[w] # config.table_sources
        /\ function_sources[w] = config.function_sources
        /\ function_sources[w] # Some(FunctionScans[db].value)

====
